---- MODULE Spec2Model ----
(***************************************************************************)
(* Model of the launcher overlay of wezterm-gui                            *)
(* (wezterm-gui/src/overlay/launcher.rs): the LauncherState session state, *)
(* the fuzzy filter (update_filter), the cursor/scroll bookkeeping         *)
(* (move_up, move_down), launch, and the input loop (run_loop), one action *)
(* per match arm of the loop; and the construction of the Catalog          *)
(* (LauncherArgs::new, LauncherEntry::new, build_entries), one action per  *)
(* stretch of code between two awaits, while the mux changes under it.     *)
(*                                                                         *)
(* In the session, strings are sequences of one-character strings; in the  *)
(* construction of the Catalog, where labels are ordered, they are         *)
(* sequences of character codes.  usize arithmetic is modelled on the     *)
(* naturals; the one place where it can leave the naturals                 *)
(* (filtered_entries.len() - 1 in move_down) is modelled explicitly.       *)
(***************************************************************************)
EXTENDS Integers, Sequences, FiniteSets, TLC

VARIABLES
    entries,            \* LauncherState.entries: the Catalog
    pane_id,            \* LauncherState.pane_id
    flags,              \* LauncherState.flags (only FUZZY is read by the session)
    active_idx,         \* LauncherState.active_idx
    max_items,          \* LauncherState.max_items
    top_row,            \* LauncherState.top_row
    filter_term,        \* LauncherState.filter_term
    filtered_entries,   \* LauncherState.filtered_entries
    filtering,          \* LauncherState.filtering
    status,             \* position of launcher()/run_loop: running, or how it ended
    notified,           \* the notifications handed to window.notify, in order
    last,               \* the input event handled by the latest iteration of the loop
    mux,                \* what LauncherArgs::new reads: domains, window tabs, key table, commands
    args,               \* the LauncherArgs under construction
    bpc,                \* position of LauncherArgs::new / build_entries
    log,                \* the labels reported through log::error!, in order
    loc,                \* the locals of the loop LauncherArgs::new is in
    calls               \* the calls of LauncherEntry::new so far, with the callback's result

\* the variables of the construction of the Catalog
bvars == <<mux, args, bpc, log, loc, calls>>

vars == <<entries, pane_id, flags, active_idx, max_items, top_row, filter_term,
          filtered_entries, filtering, status, notified, last, mux, args, bpc, log,
          loc, calls>>

----------------------------------------------------------------------------
(* Bounds of the model *)

MaxEntries == 3      \* the Catalog has 0..MaxEntries entries
MaxFilterLen == 1    \* filter_term holds at most MaxFilterLen characters
MaxRows == 5         \* terminal heights range up to MaxRows rows
MaxY == 2            \* mouse rows range over 0..MaxY
MaxIdx == 2          \* cap on active_idx where a wrapped move_down keeps counting
MaxKeys == 3         \* the key table holds at most MaxKeys bindings
MaxTabs == 2         \* the window holds at most MaxTabs tabs, with ids in 0..MaxTabs
MaxDomains == 2      \* the mux holds at most MaxDomains domains
MaxCommands == 2     \* the command palette holds at most MaxCommands commands

(* Program constant *)
ROW_OVERHEAD == 3

----------------------------------------------------------------------------
(* Small helpers for usize arithmetic *)

saturating_sub(a, b) == IF a >= b THEN a - b ELSE 0

min(a, b) == IF a <= b THEN a ELSE b

----------------------------------------------------------------------------
(* Input alphabet *)

Digits == <<"1", "2", "3", "4", "5", "6", "7", "8", "9">>

IsDigit(c) == \E i \in 1..9 : Digits[i] = c

\* c as u32 - '1' as u32
DigitOffset(c) == (CHOOSE i \in 1..9 : Digits[i] = c) - 1

Chars == {"1", "2", "j", "k", "/", "P", "N", "G"}

\* the characters typed without a modifier; P, N and G are typed with Ctrl
PlainChars == {"1", "2", "j", "k", "/"}

CtrlChars == {"P", "N", "G"}

SpecialKeys == {"Backspace", "Escape", "Enter", "UpArrow", "DownArrow", "Tab"}

Buttons == { {}, {"LEFT"}, {"RIGHT"},
             {"VERT_WHEEL"}, {"VERT_WHEEL", "WHEEL_POSITIVE"} }

Rows == (ROW_OVERHEAD - 1)..MaxRows

PaneIds == {10}

NoEvent == [type |-> "None", key |-> "-", mods |-> "NONE", y |-> 0, buttons |-> {}, rows |-> 0]

KeyEv(k, m) == [type |-> "Key", key |-> k, mods |-> m, y |-> 0, buttons |-> {}, rows |-> 0]

MouseEv(y, b) == [type |-> "Mouse", key |-> "-", mods |-> "NONE", y |-> y, buttons |-> b, rows |-> 0]

ResizedEv(r) == [type |-> "Resized", key |-> "-", mods |-> "NONE", y |-> 0, buttons |-> {}, rows |-> r]

PollEv(t) == [type |-> t, key |-> "-", mods |-> "NONE", y |-> 0, buttons |-> {}, rows |-> 0]

KeyEvents == {KeyEv(k, "NONE") : k \in PlainChars \cup SpecialKeys}
                \cup {KeyEv(k, "CTRL") : k \in CtrlChars}

MouseEvents == {MouseEv(y, b) : y \in 0..MaxY, b \in Buttons}

ResizedEvents == {ResizedEv(r) : r \in Rows}

\* the fallible calls of launcher() ahead of run_loop, in order
StartSteps == {"get_screen_size", "set_raw_mode", "title", "render"}

\* launcher() returned Err from `step` before the first poll
StartEv(step) == [type |-> "StartErr", key |-> step, mods |-> "NONE", y |-> 0, buttons |-> {},
                  rows |-> 0]

----------------------------------------------------------------------------
(* The Catalog *)

LabelPool == << <<"j", "k">>, <<"k", "j", "1">>, <<"j", "k">>, <<"N", "/", "2">> >>

LabelOf(i) == LabelPool[((i - 1) % Len(LabelPool)) + 1]

\* entry i of the Catalog: its label and its action (the action identifies the entry)
EntryOf(i) == [label |-> LabelOf(i), action |-> i]

Catalog(n) == [i \in 1..n |-> EntryOf(i)]

----------------------------------------------------------------------------
(* Fuzzy matching: SkimMatcherV2::default().fuzzy_match(label, pattern)    *)

IsUpper(c) == c \in {"P", "N", "G"}

Lower(c) == CASE c = "P" -> "p" [] c = "N" -> "n" [] c = "G" -> "g" [] OTHER -> c

\* smart case: the match is case sensitive iff the pattern has an upper-case letter
CaseSensitive(pattern) == \E k \in 1..Len(pattern) : IsUpper(pattern[k])

CharEq(lc, pc, sensitive) == IF sensitive THEN lc = pc ELSE Lower(lc) = pc

\* the ways of embedding pattern in label as a subsequence
Embeddings(label, pattern) ==
    { f \in [1..Len(pattern) -> 1..Len(label)] :
        /\ \A k \in 1..Len(pattern) :
              CharEq(label[f[k]], pattern[k], CaseSensitive(pattern))
        /\ \A k \in 1..(Len(pattern) - 1) : f[k] < f[k + 1] }

RECURSIVE EmbeddingScore(_, _)
\* score of the first k matched characters of embedding f
EmbeddingScore(f, k) ==
    IF k = 0 THEN 0
    ELSE LET gap == IF k = 1 THEN f[1] - 1 ELSE f[k] - f[k - 1] - 1
             here == 16
                     + (IF f[k] = 1 THEN 8 ELSE 0)
                     + (IF k > 1 /\ gap = 0 THEN 4 ELSE 0)
                     - (IF gap > 0 THEN 3 + (gap - 1) ELSE 0)
         IN  EmbeddingScore(f, k - 1) + here

\* Some(score) or None
fuzzy_match(label, pattern) ==
    LET E == Embeddings(label, pattern)
        S == { EmbeddingScore(f, Len(pattern)) : f \in E }
    IN  IF E = {} THEN [matched |-> FALSE, score |-> 0]
        ELSE [matched |-> TRUE, score |-> CHOOSE s \in S : \A t \in S : t <= s]

----------------------------------------------------------------------------
(* LauncherState::update_filter *)

RECURSIVE MatchResults(_, _, _)
\* entries.iter().enumerate().filter_map(..).collect(): the rows 0..n-1 of es
\* that match term, in Catalog order, each with its score
MatchResults(es, term, n) ==
    IF n = 0 THEN <<>>
    ELSE LET m == fuzzy_match(es[n].label, term)
         IN  IF m.matched
             THEN Append(MatchResults(es, term, n - 1), [row_idx |-> n - 1, score |-> m.score])
             ELSE MatchResults(es, term, n - 1)

\* x placed behind every element of the descending sequence that compares >= x
InsertByScore(sorted, x) ==
    LET p == Cardinality({k \in 1..Len(sorted) : sorted[k].score >= x.score})
    IN  SubSeq(sorted, 1, p) \o <<x>> \o SubSeq(sorted, p + 1, Len(sorted))

RECURSIVE sort_by_score_ascending(_)
\* the sort without .reverse(): ascending by score
sort_by_score_ascending(scores) ==
    IF scores = <<>> THEN <<>>
    ELSE LET rest == sort_by_score_ascending(SubSeq(scores, 1, Len(scores) - 1))
             x == scores[Len(scores)]
             p == Cardinality({k \in 1..Len(rest) : rest[k].score <= x.score})
         IN  SubSeq(rest, 1, p) \o <<x>> \o SubSeq(rest, p + 1, Len(rest))

RECURSIVE sort_by_score_reverse(_)
\* scores.sort_by(|a, b| a.score.cmp(&b.score).reverse()): a stable sort
sort_by_score_reverse(scores) ==
    IF scores = <<>> THEN <<>>
    ELSE InsertByScore(sort_by_score_reverse(SubSeq(scores, 1, Len(scores) - 1)),
                       scores[Len(scores)])

\* update_filter without the early return for an empty term, treating the
\* empty term as one that nothing matches
update_filter_ClearOnEmpty(es, term, idx, top) ==
    IF term = <<>>
    THEN [filtered_entries |-> <<>>, active_idx |-> 0, top_row |-> 0]
    ELSE LET scores == sort_by_score_reverse(MatchResults(es, term, Len(es)))
         IN  [filtered_entries |-> [k \in 1..Len(scores) |-> es[scores[k].row_idx + 1]],
              active_idx |-> 0,
              top_row |-> 0]

\* the fields update_filter leaves behind, given the ones it reads
update_filter(es, term, idx, top) ==
    IF term = <<>>
    THEN [filtered_entries |-> es, active_idx |-> idx, top_row |-> top]
    ELSE LET scores == sort_by_score_reverse(MatchResults(es, term, Len(es)))
         IN  [filtered_entries |-> [k \in 1..Len(scores) |-> es[scores[k].row_idx + 1]],
              active_idx |-> 0,
              top_row |-> 0]

----------------------------------------------------------------------------
(* LauncherState::launch, move_up, move_down *)

\* filtered_entries[active_idx] panics when the index is out of bounds;
\* otherwise the entry's action is handed to window.notify with the pane id
launch(fe, idx, pid) ==
    IF idx < Len(fe)
    THEN [panic |-> FALSE, notif |-> <<[pane_id |-> pid, assignment |-> fe[idx + 1].action]>>]
    ELSE [panic |-> TRUE, notif |-> <<>>]

\* move_up without the decrement of active_idx
move_up_NoMove(idx, top) ==
    [active_idx |-> idx, top_row |-> IF idx < top THEN idx ELSE top]

move_up(idx, top) ==
    LET a == saturating_sub(idx, 1)
    IN  [active_idx |-> a, top_row |-> IF a < top THEN a ELSE top]

\* the scroll adjustment of move_down, once active_idx is known
move_down_scroll(a, top, maxi) ==
    [panic |-> FALSE,
     active_idx |-> a,
     top_row |-> IF a + top > maxi THEN saturating_sub(a, maxi) ELSE top]

\* move_down without the .min(len - 1) clamp
move_down_NoClamp(idx, top, len, maxi) ==
    { move_down_scroll(idx + 1, top, maxi) }

\* The outcomes of move_down.  With an empty filtered_entries, len() - 1
\* overflows: a build with overflow checks panics, a build without them wraps
\* to usize::MAX, and (active_idx + 1).min(usize::MAX) is active_idx + 1.
move_down(idx, top, len, maxi) ==
    IF len = 0
    THEN { [panic |-> TRUE, active_idx |-> idx, top_row |-> top],
           move_down_scroll(idx + 1, top, maxi) }
    ELSE { move_down_scroll(min(idx + 1, len - 1), top, maxi) }

----------------------------------------------------------------------------
(* LauncherState::render: the entry rows of the frame *)

RECURSIVE render_loop_BreakAtMax(_, _, _, _, _, _)
\* the row loop breaking at row_num >= max_items
render_loop_BreakAtMax(fe, top, maxi, active, filt, row_num) ==
    IF top + row_num >= Len(fe) \/ row_num >= maxi THEN <<>>
    ELSE <<[entry_idx |-> top + row_num,
            label |-> fe[top + row_num + 1].label,
            reverse |-> (top + row_num = active),
            digit |-> IF row_num < 9 /\ ~filt THEN row_num + 1 ELSE 0]>>
         \o render_loop_BreakAtMax(fe, top, maxi, active, filt, row_num + 1)

RECURSIVE render_loop(_, _, _, _, _, _)
\* for (row_num, (entry_idx, entry)) in
\*     filtered_entries.iter().enumerate().skip(top_row).enumerate(),
\* from row_num on; `digit` is the quick-select prefix, 0 for the blank gutter
render_loop(fe, top, maxi, active, filt, row_num) ==
    IF top + row_num >= Len(fe) \/ row_num > maxi THEN <<>>
    ELSE <<[entry_idx |-> top + row_num,
            label |-> fe[top + row_num + 1].label,
            reverse |-> (top + row_num = active),
            digit |-> IF row_num < 9 /\ ~filt THEN row_num + 1 ELSE 0]>>
         \o render_loop(fe, top, maxi, active, filt, row_num + 1)

\* the entry rows render() draws for the current session state
render_rows == render_loop(filtered_entries, top_row, max_items, active_idx, filtering, 0)

----------------------------------------------------------------------------
(* LauncherState::run_loop: which arm of the match takes an event *)

IsChar(ev) == ev.type = "Key" /\ ev.key \in Chars

\* the match with the filter-character arm moved ahead of the Ctrl-G/Escape arm
ArmOf_FilterCharFirst(ev, filt) ==
    CASE IsChar(ev) /\ ~filt /\ IsDigit(ev.key)                   -> "digit"
      [] IsChar(ev) /\ ev.key = "j" /\ ~filt                      -> "j"
      [] IsChar(ev) /\ ev.key = "k" /\ ~filt                      -> "k"
      [] IsChar(ev) /\ ev.key = "P" /\ ev.mods = "CTRL"           -> "ctrl_p"
      [] IsChar(ev) /\ ev.key = "N" /\ ev.mods = "CTRL"           -> "ctrl_n"
      [] IsChar(ev) /\ ev.key = "/" /\ ~filt                      -> "slash"
      [] ev.type = "Key" /\ ev.key = "Backspace"                  -> "backspace"
      [] IsChar(ev) /\ filt                                       -> "filter_char"
      [] \/ IsChar(ev) /\ ev.key = "G" /\ ev.mods = "CTRL"
         \/ ev.type = "Key" /\ ev.key = "Escape"                  -> "cancel"
      [] ev.type = "Key" /\ ev.key = "UpArrow"                    -> "up"
      [] ev.type = "Key" /\ ev.key = "DownArrow"                  -> "down"
      [] ev.type = "Mouse" /\ "VERT_WHEEL" \in ev.buttons         -> "wheel"
      [] ev.type = "Mouse"                                        -> "mouse"
      [] ev.type = "Key" /\ ev.key = "Enter"                      -> "enter"
      [] ev.type = "Resized"                                      -> "resized"
      [] OTHER                                                    -> "other"

\* the match with the digit arm lacking its `!self.filtering` guard
ArmOf_DigitAnyMode(ev, filt) ==
    CASE IsChar(ev) /\ IsDigit(ev.key)                            -> "digit"
      [] IsChar(ev) /\ ev.key = "j" /\ ~filt                      -> "j"
      [] IsChar(ev) /\ ev.key = "k" /\ ~filt                      -> "k"
      [] IsChar(ev) /\ ev.key = "P" /\ ev.mods = "CTRL"           -> "ctrl_p"
      [] IsChar(ev) /\ ev.key = "N" /\ ev.mods = "CTRL"           -> "ctrl_n"
      [] IsChar(ev) /\ ev.key = "/" /\ ~filt                      -> "slash"
      [] ev.type = "Key" /\ ev.key = "Backspace"                  -> "backspace"
      [] \/ IsChar(ev) /\ ev.key = "G" /\ ev.mods = "CTRL"
         \/ ev.type = "Key" /\ ev.key = "Escape"                  -> "cancel"
      [] IsChar(ev) /\ filt                                       -> "filter_char"
      [] ev.type = "Key" /\ ev.key = "UpArrow"                    -> "up"
      [] ev.type = "Key" /\ ev.key = "DownArrow"                  -> "down"
      [] ev.type = "Mouse" /\ "VERT_WHEEL" \in ev.buttons         -> "wheel"
      [] ev.type = "Mouse"                                        -> "mouse"
      [] ev.type = "Key" /\ ev.key = "Enter"                      -> "enter"
      [] ev.type = "Resized"                                      -> "resized"
      [] OTHER                                                    -> "other"

ArmOf(ev, filt) ==
    CASE IsChar(ev) /\ ~filt /\ IsDigit(ev.key)                   -> "digit"
      [] IsChar(ev) /\ ev.key = "j" /\ ~filt                      -> "j"
      [] IsChar(ev) /\ ev.key = "k" /\ ~filt                      -> "k"
      [] IsChar(ev) /\ ev.key = "P" /\ ev.mods = "CTRL"           -> "ctrl_p"
      [] IsChar(ev) /\ ev.key = "N" /\ ev.mods = "CTRL"           -> "ctrl_n"
      [] IsChar(ev) /\ ev.key = "/" /\ ~filt                      -> "slash"
      [] ev.type = "Key" /\ ev.key = "Backspace"                  -> "backspace"
      [] \/ IsChar(ev) /\ ev.key = "G" /\ ev.mods = "CTRL"
         \/ ev.type = "Key" /\ ev.key = "Escape"                  -> "cancel"
      [] IsChar(ev) /\ filt                                       -> "filter_char"
      [] ev.type = "Key" /\ ev.key = "UpArrow"                    -> "up"
      [] ev.type = "Key" /\ ev.key = "DownArrow"                  -> "down"
      [] ev.type = "Mouse" /\ "VERT_WHEEL" \in ev.buttons         -> "wheel"
      [] ev.type = "Mouse"                                        -> "mouse"
      [] ev.type = "Key" /\ ev.key = "Enter"                      -> "enter"
      [] ev.type = "Resized"                                      -> "resized"
      [] OTHER                                                    -> "other"

----------------------------------------------------------------------------
(* The session takes its Catalog as given: nothing is under construction *)

NoMux == [domains |-> <<>>, tabs |-> <<>>, keys |-> <<>>, commands |-> <<>>, window |-> TRUE]

\* no KeyAssignment held
NoAction == [kind |-> "None", n |-> 0, name |-> <<>>]

\* no call of LauncherEntry::new pending
NoCall == [label |-> <<>>, action |-> NoAction, launch_type |-> [type |-> "None"]]

\* the loop locals ahead of a loop: next index, entries pushed, the sorted
\* domains, the action get_entry holds across the await in get_label, the
\* arguments LauncherEntry::new holds across the await of the callback
NoLoc == [i |-> 1, acc |-> <<>>, list |-> <<>>, action |-> NoAction, call |-> NoCall,
          pc |-> "top"]

\* LauncherArgs with every list empty
NoArgs == [domains |-> <<>>, tabs |-> <<>>, cmddefs |-> <<>>, shortcuts |-> <<>>,
           entries |-> <<>>]

----------------------------------------------------------------------------
(* launcher(): the session state when run_loop is entered, or when one of  *)
(* get_screen_size()?, set_raw_mode()?, render(title)? and the first       *)
(* state.render()? returned Err: `start` names the call that failed.  The  *)
(* fields hold what launcher() had assigned by then (max_items not before  *)
(* get_screen_size, the entries not before build_entries).                 *)

Init ==
    \E n \in 0..MaxEntries, rows \in Rows, pid \in PaneIds, fl \in {{}, {"FUZZY"}},
       start \in {"ok"} \cup StartSteps :
        LET built == start \in {"ok", "render"}
        IN  /\ entries = IF built THEN Catalog(n) ELSE <<>>
            /\ pane_id = pid
            /\ flags = fl
            /\ active_idx = 0
            /\ max_items = IF start = "get_screen_size" THEN 0
                           ELSE saturating_sub(rows, ROW_OVERHEAD)
            /\ top_row = 0
            /\ filter_term = <<>>
            /\ filtered_entries = IF built
                                  THEN update_filter(Catalog(n), <<>>, 0, 0).filtered_entries
                                  ELSE <<>>
            /\ filtering = ("FUZZY" \in fl)
            /\ status = IF start = "ok" THEN "running" ELSE "err"
            /\ notified = <<>>
            /\ last = IF start = "ok" THEN NoEvent ELSE StartEv(start)
            /\ mux = NoMux
            /\ args = NoArgs
            /\ bpc = "built"
            /\ log = <<>>
            /\ loc = NoLoc
            /\ calls = <<>>

----------------------------------------------------------------------------
(* LauncherState::run_loop: one action per arm.  An arm that does not      *)
(* break is followed by self.render(term)?, whose failure ends the loop.   *)

\* the loop takes event ev in arm `arm`
Takes(ev, arm) ==
    /\ status = "running"
    /\ ArmOf(ev, filtering) = arm
    /\ UNCHANGED bvars
    /\ last' = ev

\* self.render(term)?
Render == \E ok \in BOOLEAN : status' = IF ok THEN "running" ELSE "err"

\* self.launch(idx); break
LaunchAndBreak(idx) ==
    LET r == launch(filtered_entries, idx, pane_id)
    IN  /\ notified' = notified \o r.notif
        /\ status' = IF r.panic THEN "panic" ELSE "ok"

DoMoveUp ==
    LET r == move_up(active_idx, top_row)
    IN  /\ active_idx' = r.active_idx
        /\ top_row' = r.top_row
        /\ Render
        /\ UNCHANGED <<entries, pane_id, flags, max_items, filter_term,
                       filtered_entries, filtering, notified>>

DoMoveDown ==
    \E r \in move_down(active_idx, top_row, Len(filtered_entries), max_items) :
        /\ r.active_idx <= MaxIdx \/ Len(filtered_entries) > 0
        /\ active_idx' = r.active_idx
        /\ top_row' = r.top_row
        /\ IF r.panic THEN status' = "panic" ELSE Render
        /\ UNCHANGED <<entries, pane_id, flags, max_items, filter_term,
                       filtered_entries, filtering, notified>>

DoUpdateFilter(term) ==
    LET r == update_filter(entries, term, active_idx, top_row)
    IN  /\ filter_term' = term
        /\ filtered_entries' = r.filtered_entries
        /\ active_idx' = r.active_idx
        /\ top_row' = r.top_row

KeyDigit(ev) ==
    /\ Takes(ev, "digit")
    /\ LaunchAndBreak(top_row + DigitOffset(ev.key))
    /\ UNCHANGED <<entries, pane_id, flags, active_idx, max_items, top_row,
                   filter_term, filtered_entries, filtering>>

KeyJ(ev) == Takes(ev, "j") /\ DoMoveDown

KeyK(ev) == Takes(ev, "k") /\ DoMoveUp

KeyCtrlP(ev) == Takes(ev, "ctrl_p") /\ DoMoveUp

KeyCtrlN(ev) == Takes(ev, "ctrl_n") /\ DoMoveDown

KeySlash(ev) ==
    /\ Takes(ev, "slash")
    /\ filtering' = TRUE
    /\ Render
    /\ UNCHANGED <<entries, pane_id, flags, active_idx, max_items, top_row,
                   filter_term, filtered_entries, notified>>

\* the Backspace arm leaving FilterEntry mode whatever the FUZZY flag
KeyBackspace_IgnoreFuzzy(ev) ==
    /\ Takes(ev, "backspace")
    /\ filtering' = IF filter_term = <<>> THEN FALSE ELSE filtering
    /\ DoUpdateFilter(IF filter_term = <<>> THEN <<>>
                      ELSE SubSeq(filter_term, 1, Len(filter_term) - 1))
    /\ Render
    /\ UNCHANGED <<entries, pane_id, flags, max_items, notified>>

KeyBackspace(ev) ==
    /\ Takes(ev, "backspace")
    /\ filtering' = IF filter_term = <<>> /\ "FUZZY" \notin flags THEN FALSE ELSE filtering
    /\ DoUpdateFilter(IF filter_term = <<>> THEN <<>>
                      ELSE SubSeq(filter_term, 1, Len(filter_term) - 1))
    /\ Render
    /\ UNCHANGED <<entries, pane_id, flags, max_items, notified>>

KeyCancel(ev) ==
    /\ Takes(ev, "cancel")
    /\ status' = "ok"
    /\ UNCHANGED <<entries, pane_id, flags, active_idx, max_items, top_row,
                   filter_term, filtered_entries, filtering, notified>>

KeyFilterChar(ev) ==
    /\ Takes(ev, "filter_char")
    /\ Len(filter_term) < MaxFilterLen
    /\ DoUpdateFilter(Append(filter_term, ev.key))
    /\ Render
    /\ UNCHANGED <<entries, pane_id, flags, max_items, filtering, notified>>

KeyUpArrow(ev) == Takes(ev, "up") /\ DoMoveUp

KeyDownArrow(ev) == Takes(ev, "down") /\ DoMoveDown

MouseWheel(ev) ==
    LET len == Len(filtered_entries)
        top == IF "WHEEL_POSITIVE" \in ev.buttons
               THEN saturating_sub(top_row, 1)
               ELSE min(top_row + 1,
                        saturating_sub(saturating_sub(len, max_items), 1))
    IN  /\ Takes(ev, "wheel")
        /\ top_row' = top
        /\ active_idx' = IF ev.y > 0 /\ ev.y <= len THEN top + ev.y - 1 ELSE active_idx
        /\ Render
        /\ UNCHANGED <<entries, pane_id, flags, max_items, filter_term,
                       filtered_entries, filtering, notified>>

\* the click arm ending the loop on every mouse event, pressed button or not
Mouse_BreakOnMove(ev) ==
    LET valid == ev.y > 0 /\ ev.y <= Len(filtered_entries)
        idx == IF valid THEN top_row + ev.y - 1 ELSE active_idx
    IN  /\ Takes(ev, "mouse")
        /\ active_idx' = idx
        /\ IF valid /\ ev.buttons = {"LEFT"}
           THEN LaunchAndBreak(idx)
           ELSE /\ notified' = notified
                /\ status' = "ok"
        /\ UNCHANGED <<entries, pane_id, flags, max_items, top_row, filter_term,
                       filtered_entries, filtering>>

\* the click arm taking y - 1 as the row, without top_row
Mouse_IgnoreTopRow(ev) ==
    LET valid == ev.y > 0 /\ ev.y <= Len(filtered_entries)
        idx == IF valid THEN ev.y - 1 ELSE active_idx
    IN  /\ Takes(ev, "mouse")
        /\ active_idx' = idx
        /\ IF valid /\ ev.buttons = {"LEFT"}
           THEN LaunchAndBreak(idx)
           ELSE /\ notified' = notified
                /\ IF ev.buttons # {} THEN status' = "ok" ELSE Render
        /\ UNCHANGED <<entries, pane_id, flags, max_items, top_row, filter_term,
                       filtered_entries, filtering>>

\* the click arm launching on any pressed button, not only the left one
Mouse_LaunchAnyButton(ev) ==
    LET valid == ev.y > 0 /\ ev.y <= Len(filtered_entries)
        idx == IF valid THEN top_row + ev.y - 1 ELSE active_idx
    IN  /\ Takes(ev, "mouse")
        /\ active_idx' = idx
        /\ IF valid /\ ev.buttons # {}
           THEN LaunchAndBreak(idx)
           ELSE /\ notified' = notified
                /\ IF ev.buttons # {} THEN status' = "ok" ELSE Render
        /\ UNCHANGED <<entries, pane_id, flags, max_items, top_row, filter_term,
                       filtered_entries, filtering>>

Mouse(ev) ==
    LET valid == ev.y > 0 /\ ev.y <= Len(filtered_entries)
        idx == IF valid THEN top_row + ev.y - 1 ELSE active_idx
    IN  /\ Takes(ev, "mouse")
        /\ active_idx' = idx
        /\ IF valid /\ ev.buttons = {"LEFT"}
           THEN LaunchAndBreak(idx)
           ELSE /\ notified' = notified
                /\ IF ev.buttons # {} THEN status' = "ok" ELSE Render
        /\ UNCHANGED <<entries, pane_id, flags, max_items, top_row, filter_term,
                       filtered_entries, filtering>>

\* the Enter arm without its break: the loop renders and goes on
KeyEnter_NoBreak(ev) ==
    LET r == launch(filtered_entries, active_idx, pane_id)
    IN  /\ Takes(ev, "enter")
        /\ notified' = notified \o r.notif
        /\ IF r.panic THEN status' = "panic" ELSE Render
        /\ UNCHANGED <<entries, pane_id, flags, active_idx, max_items, top_row,
                       filter_term, filtered_entries, filtering>>

KeyEnter(ev) ==
    /\ Takes(ev, "enter")
    /\ LaunchAndBreak(active_idx)
    /\ UNCHANGED <<entries, pane_id, flags, active_idx, max_items, top_row,
                   filter_term, filtered_entries, filtering>>

Resized(ev) ==
    /\ Takes(ev, "resized")
    /\ max_items' = saturating_sub(ev.rows, ROW_OVERHEAD)
    /\ Render
    /\ UNCHANGED <<entries, pane_id, flags, active_idx, top_row, filter_term,
                   filtered_entries, filtering, notified>>

OtherEvent(ev) ==
    /\ Takes(ev, "other")
    /\ Render
    /\ UNCHANGED <<entries, pane_id, flags, active_idx, max_items, top_row,
                   filter_term, filtered_entries, filtering, notified>>

\* term.poll_input(None) yields Err(_) or Ok(None): `while let` ends the loop
\* and run_loop returns Ok(())
PollEnds(t) ==
    /\ status = "running"
    /\ t \in {"PollErr", "PollNone"}
    /\ last' = PollEv(t)
    /\ status' = "ok"
    /\ UNCHANGED bvars
    /\ UNCHANGED <<entries, pane_id, flags, active_idx, max_items, top_row,
                   filter_term, filtered_entries, filtering, notified>>

\* each arm is offered the events of the InputEvent variant its pattern names
Next ==
    \/ \E ev \in KeyEvents :
          \/ KeyDigit(ev)
          \/ KeyJ(ev)
          \/ KeyK(ev)
          \/ KeyCtrlP(ev)
          \/ KeyCtrlN(ev)
          \/ KeySlash(ev)
          \/ KeyBackspace(ev)
          \/ KeyCancel(ev)
          \/ KeyFilterChar(ev)
          \/ KeyUpArrow(ev)
          \/ KeyDownArrow(ev)
          \/ KeyEnter(ev)
          \/ OtherEvent(ev)
    \/ \E ev \in MouseEvents :
          \/ MouseWheel(ev)
          \/ Mouse(ev)
    \/ \E ev \in ResizedEvents : Resized(ev)
    \/ \E t \in {"PollErr", "PollNone"} : PollEnds(t)

Spec == Init /\ [][Next]_vars

TypeOK ==
    /\ active_idx \in Nat
    /\ top_row \in Nat
    /\ max_items \in Nat
    /\ filtering \in BOOLEAN
    /\ status \in {"running", "ok", "err", "panic"}
    /\ Len(filter_term) <= MaxFilterLen

----------------------------------------------------------------------------
(* Construction of the Catalog.  Strings are sequences of character codes, *)
(* so that String::cmp is the lexicographic order on them.                 *)

RECURSIVE str_less(_, _)
\* a.cmp(&b) == Ordering::Less for Strings a and b
str_less(a, b) ==
    IF b = <<>> THEN FALSE
    ELSE IF a = <<>> THEN TRUE
    ELSE IF a[1] # b[1] THEN a[1] < b[1]
    ELSE str_less(Tail(a), Tail(b))

\* format!("{}", n) for a number below 10
digit(n) == <<48 + n>>

\* a KeyAssignment: its variant, and the number or the name it carries
Action(kind, n, name) == [kind |-> kind, n |-> n, name |-> name]

\* the variants LauncherArgs::new leaves out of cmddefs and shortcuts
TabActions == {"ActivateTabRelative", "ActivateTab"}

\* format!("{:?}", action): the variant's initials and what it carries
debug(a) ==
    CASE a.kind = "ActivateTab" -> <<65, 84>> \o digit(a.n)
      [] a.kind = "ActivateTabRelative" -> <<65, 82>> \o digit(a.n)
      [] a.kind = "SpawnCommandInNewTab" -> <<83>> \o a.name
      [] a.kind = "AttachDomain" -> <<65, 68>> \o a.name
      [] a.kind = "Copy" -> <<67>>
      [] a.kind = "Paste" -> <<80>>
      [] OTHER -> <<78>>

\* what the format-launcher-item callback can do with a label: fail, or
\* return the label itself, the empty string, or a string of its own
HookChoices == {"Err", "Same", "Empty", "Other"}

\* the Result<String> of the callback for `label` under choice c
callback(label, c) ==
    CASE c = "Err" -> [ok |-> FALSE, label |-> <<>>]
      [] c = "Same" -> [ok |-> TRUE, label |-> label]
      [] c = "Empty" -> [ok |-> TRUE, label |-> <<>>]
      [] OTHER -> [ok |-> TRUE, label |-> <<122, 122, 122>>]

\* LauncherEntry::new replacing the label by "" when the callback fails
LauncherEntry_new_EmptyOnErr(label, action, launch_type, nlabel) ==
    [entry |-> [label |-> IF nlabel.ok THEN nlabel.label ELSE <<>>,
                action |-> action, launch_type |-> launch_type],
     log |-> IF nlabel.ok THEN <<>> ELSE <<label>>,
     call |-> [label |-> label, action |-> action, launch_type |-> launch_type,
               nlabel |-> nlabel]]

\* LauncherEntry::new with nlabel the result of the callback: the entry,
\* what is reported through log::error!, and the record of the call
LauncherEntry_new(label, action, launch_type, nlabel) ==
    [entry |-> [label |-> IF nlabel.ok THEN nlabel.label ELSE label,
                action |-> action, launch_type |-> launch_type],
     log |-> IF nlabel.ok THEN <<>> ELSE <<label>>,
     call |-> [label |-> label, action |-> action, launch_type |-> launch_type,
               nlabel |-> nlabel]]

----------------------------------------------------------------------------
(* impl LauncherItem for dyn Domain, for a key binding, for Tab and for    *)
(* ExpandedCommand                                                         *)

\* "domain `name`" or "domain `name` - label"
domain_get_label(d) ==
    IF d.name = d.label \/ d.label = <<>>
    THEN <<100, 96>> \o d.name \o <<96>>
    ELSE <<100, 96>> \o d.name \o <<96, 32, 45, 32>> \o d.label

domain_get_action(d) ==
    IF d.state = "Attached"
    THEN Action("SpawnCommandInNewTab", 0, d.name)
    ELSE Action("AttachDomain", 0, d.name)

\* the arguments get_entry hands to LauncherEntry::new
NewArgs(label, action, launch_type) ==
    [label |-> label, action |-> action, launch_type |-> launch_type]

\* get_entry from the await in get_label up to the await of
\* LauncherEntry::new: actionn was computed before the first await, d is the
\* domain as it is after it
domain_get_entry(d, actionn) ==
    NewArgs(domain_get_label(d), actionn,
            [type |-> "Domain", domain_id |-> d.domain_id, name |-> d.name,
             state |-> d.state, label |-> <<>>])

\* "{action:?} ({mods:?} {code:?})"
key_get_label(k) == debug(k.action) \o <<32, 40>> \o k.mods \o <<32>> \o k.code \o <<41>>

key_get_action(k) == k.action

\* get_entry up to the await of LauncherEntry::new
key_get_entry(k, idx) ==
    NewArgs(key_get_label(k), key_get_action(k),
            [type |-> "KeyAssignment", code |-> k.code, mods |-> k.mods,
             assignment |-> key_get_action(k)])

\* "{title}. {panes} panes"
tab_get_label(t) == t.title \o <<46, 32>> \o digit(t.panes) \o <<32, 112>>

tab_get_action(t) == Action("ActivateTab", t.tab_id, <<>>)

\* get_entry up to the await of LauncherEntry::new
tab_get_entry(t, idx) ==
    NewArgs(tab_get_label(t), tab_get_action(t),
            [type |-> "Tab", title |-> t.title, tab_id |-> t.active_idx,
             tab_idx |-> idx, pane_count |-> t.panes])

\* "{brief}. {doc}"
command_get_label(c) == c.brief \o <<46, 32>> \o c.doc

command_get_action(c) == c.action

\* get_entry up to the await of LauncherEntry::new
command_get_entry(cmd, idx) ==
    NewArgs(command_get_label(cmd), command_get_action(cmd),
            [type |-> "Command", brief |-> cmd.brief, doc |-> cmd.doc,
             keys |-> cmd.keys, action |-> command_get_action(cmd)])

----------------------------------------------------------------------------
(* LauncherArgs::new: what its loops do between two awaits *)

RECURSIVE cmd_next(_, _)
\* for cmd in commands, from the i-th on: the index of the first command
\* that is given an entry, Len(commands) + 1 when the loop ends first
cmd_next(commands, i) ==
    IF i > Len(commands) THEN i
    ELSE IF commands[i].action.kind \in TabActions THEN cmd_next(commands, i + 1)
    ELSE i

RECURSIVE key_next_NoDedup(_, _, _)
\* the loop over the key table without the search for an equal action
key_next_NoDedup(keys, i, acc) ==
    IF i > Len(keys) THEN i
    ELSE IF key_get_action(keys[i]).kind \in TabActions THEN key_next_NoDedup(keys, i + 1, acc)
    ELSE i

RECURSIVE key_next(_, _, _)
\* for keymap in keys, from the i-th on, with key_entries = acc: the index of
\* the first binding that is given an entry, Len(keys) + 1 when the loop
\* ends first
key_next(keys, i, acc) ==
    IF i > Len(keys) THEN i
    ELSE LET action == key_get_action(keys[i])
         IN  IF action.kind \in TabActions
             THEN key_next(keys, i + 1, acc)
             ELSE IF \E j \in 1..Len(acc) : acc[j].action = action
                  THEN key_next(keys, i + 1, acc)
                  ELSE i

RECURSIVE insert_by_label(_, _)
\* e put behind the entries whose label is not greater than its own
insert_by_label(sorted, e) ==
    IF sorted = <<>> THEN <<e>>
    ELSE IF str_less(e.label, sorted[1].label) THEN <<e>> \o sorted
    ELSE <<sorted[1]>> \o insert_by_label(Tail(sorted), e)

RECURSIVE sort_by_label(_)
\* key_entries.sort_by(|a, b| a.label.cmp(&b.label)): a stable sort
sort_by_label(es) ==
    IF es = <<>> THEN <<>>
    ELSE insert_by_label(sort_by_label(SubSeq(es, 1, Len(es) - 1)), es[Len(es)])

\* the comparator of domains.sort_by gives Ordering::Less for (a, b)
domain_less(a, b) ==
    IF a.state # b.state
    THEN a.state = "Attached"
    ELSE a.domain_id < b.domain_id

RECURSIVE insert_domain(_, _)
insert_domain(sorted, d) ==
    IF sorted = <<>> THEN <<d>>
    ELSE IF domain_less(d, sorted[1]) THEN <<d>> \o sorted
    ELSE <<sorted[1]>> \o insert_domain(Tail(sorted), d)

RECURSIVE sort_domains(_)
\* domains.sort_by(..): a stable sort
sort_domains(ds) ==
    IF ds = <<>> THEN <<>>
    ELSE insert_domain(sort_domains(SubSeq(ds, 1, Len(ds) - 1)), ds[Len(ds)])

\* domains.retain(|dom| dom.spawnable())
retain_spawnable(ds) == SelectSeq(ds, LAMBDA d : d.spawnable)

\* the domain of the mux that the Arc with this id points to
DomainOf(id) == CHOOSE d \in {mux.domains[k] : k \in 1..Len(mux.domains)} : d.domain_id = id

----------------------------------------------------------------------------
(* What LauncherArgs::new can find in the mux and in the configuration *)

\* the sequences without repetition of at most n elements of S
InjSeqs(S, n) ==
    UNION { {s \in [1..k -> S] : \A i, j \in 1..k : s[i] = s[j] => i = j} : k \in 0..n }

\* DomainState
DomainStates == {"Attached", "Detached"}

Domain(id, name, label, state, spawnable) ==
    [domain_id |-> id, name |-> name, label |-> label, state |-> state,
     spawnable |-> spawnable]

DomainPool ==
    { Domain(1, <<115>>, <<120>>, "Detached", TRUE),
      Domain(2, <<117>>, <<>>, "Attached", TRUE),
      Domain(3, <<109>>, <<109>>, "Detached", FALSE) }

KeyBinding(code, mods, action) == [code |-> code, mods |-> mods, action |-> action]

KeyPool ==
    { KeyBinding(<<122>>, <<78>>, Action("Copy", 0, <<>>)),
      KeyBinding(<<97>>, <<67>>, Action("Copy", 0, <<>>)),
      KeyBinding(<<118>>, <<67>>, Action("Paste", 0, <<>>)),
      KeyBinding(<<49>>, <<67>>, Action("ActivateTab", 0, <<>>)),
      KeyBinding(<<116>>, <<67>>, Action("ActivateTabRelative", 1, <<>>)) }

\* the tab with id `id`
TabOf(id) == [tab_id |-> id, title |-> <<116>> \o digit(id), panes |-> 1 + (id % 2),
              active_idx |-> 0]

Command(brief, doc, keys, action) ==
    [brief |-> brief, doc |-> doc, keys |-> keys, action |-> action]

CommandPool ==
    { Command(<<99>>, <<121>>, <<>>, Action("Copy", 0, <<>>)),
      Command(<<112>>, <<>>, <<118>>, Action("Paste", 0, <<>>)),
      Command(<<97>>, <<>>, <<49>>, Action("ActivateTab", 1, <<>>)),
      Command(<<114>>, <<>>, <<>>, Action("ActivateTabRelative", 1, <<>>)) }

DomainLists == InjSeqs(DomainPool, MaxDomains)

KeyTables == InjSeqs(KeyPool, MaxKeys)

\* tab ids are given out by the mux, not by the window: any ids, in any order
TabLists == { [i \in 1..Len(ids) |-> TabOf(ids[i])] : ids \in InjSeqs(0..MaxTabs, MaxTabs) }

CommandLists == InjSeqs(CommandPool, MaxCommands)

\* a small mux: one domain, one tab, one binding, one command
SmallMux ==
    [domains |-> <<Domain(1, <<115>>, <<120>>, "Detached", TRUE)>>,
     tabs |-> <<TabOf(1)>>,
     keys |-> <<KeyBinding(<<122>>, <<78>>, Action("Copy", 0, <<>>))>>,
     commands |-> <<Command(<<99>>, <<121>>, <<>>, Action("Copy", 0, <<>>))>>,
     window |-> TRUE]

\* the small mux, and the muxes with one source only, each with or without
\* the window LauncherArgs::new is called for
MuxInputs ==
    LET one == {[NoMux EXCEPT !.domains = ds] : ds \in DomainLists}
               \cup {[NoMux EXCEPT !.tabs = ts] : ts \in TabLists}
               \cup {[NoMux EXCEPT !.keys = ks] : ks \in KeyTables}
               \cup {[NoMux EXCEPT !.commands = cs] : cs \in CommandLists}
               \cup {SmallMux}
    IN  {[m EXCEPT !.window = w] : m \in one, w \in BOOLEAN}

BuildFlags == {"DOMAINS", "TABS", "KEY_ASSIGNMENTS", "COMMANDS"}

----------------------------------------------------------------------------
(* LauncherArgs::new followed by build_entries.  LauncherArgs::new is      *)
(* suspended in the callback of LauncherEntry::new and, for a domain, in   *)
(* domain_label(); an action is a piece of the code between two of these   *)
(* awaits.  While LauncherArgs::new is suspended, and before it is first   *)
(* polled, the mux goes on: domains attach and detach, tabs are retitled.  *)

\* the session state, which the construction does not touch
lvars == <<pane_id, flags, active_idx, max_items, top_row, filter_term,
           filtered_entries, filtering, status, notified, last>>

\* LauncherArgs::new is not yet polled, or is suspended in domain_label() or
\* in the callback
Suspended ==
    \/ bpc = "commands" /\ loc.pc = "top" /\ loc.i = 1
    \/ loc.pc \in {"label", "callback"}

InitBuild ==
    \E m \in MuxInputs, fl \in SUBSET BuildFlags, pid \in PaneIds :
        /\ mux = m
        /\ flags = fl
        /\ pane_id = pid
        /\ args = NoArgs
        /\ bpc = "commands"
        /\ log = <<>>
        /\ loc = NoLoc
        /\ calls = <<>>
        /\ entries = <<>>
        /\ active_idx = 0
        /\ max_items = 0
        /\ top_row = 0
        /\ filter_term = <<>>
        /\ filtered_entries = <<>>
        /\ filtering = FALSE
        /\ status = "building"
        /\ notified = <<>>
        /\ last = NoEvent

\* get_entry of the n-th item of the loop has come to the await of
\* LauncherEntry::new with the arguments a
Call(a, n) ==
    loc' = [loc EXCEPT !.i = n, !.call = a, !.action = NoAction, !.pc = "callback"]

\* for cmd in commands, up to the callback of the next command that is
\* given an entry
CommandStep ==
    /\ bpc = "commands"
    /\ loc.pc = "top"
    /\ "COMMANDS" \in flags
    /\ LET n == cmd_next(mux.commands, loc.i)
       IN  /\ n <= Len(mux.commands)
           /\ Call(command_get_entry(mux.commands[n], 0), n)
    /\ UNCHANGED <<mux, args, bpc, log, calls, entries>>
    /\ UNCHANGED lvars

\* the loop over the commands ends, or the flag is not set
CommandsDone ==
    /\ bpc = "commands"
    /\ loc.pc = "top"
    /\ "COMMANDS" \notin flags \/ cmd_next(mux.commands, loc.i) > Len(mux.commands)
    /\ args' = [args EXCEPT !.cmddefs = loc.acc]
    /\ loc' = NoLoc
    /\ bpc' = "keys"
    /\ UNCHANGED <<mux, log, calls, entries>>
    /\ UNCHANGED lvars

\* for keymap in keys, up to the callback of the next binding that is given
\* an entry
KeyStep ==
    /\ bpc = "keys"
    /\ loc.pc = "top"
    /\ "KEY_ASSIGNMENTS" \in flags
    /\ LET n == key_next(mux.keys, loc.i, loc.acc)
       IN  /\ n <= Len(mux.keys)
           /\ Call(key_get_entry(mux.keys[n], 0), n)
    /\ UNCHANGED <<mux, args, bpc, log, calls, entries>>
    /\ UNCHANGED lvars

\* the loop over the key table ends and key_entries is sorted, or the flag
\* is not set; `let entries = vec![]`
KeysDone ==
    /\ bpc = "keys"
    /\ loc.pc = "top"
    /\ "KEY_ASSIGNMENTS" \notin flags \/ key_next(mux.keys, loc.i, loc.acc) > Len(mux.keys)
    /\ args' = [args EXCEPT !.shortcuts = sort_by_label(loc.acc), !.entries = <<>>]
    /\ loc' = NoLoc
    /\ bpc' = "tabs"
    /\ UNCHANGED <<mux, log, calls, entries>>
    /\ UNCHANGED lvars

\* mux.get_window(mux_window_id).expect(..) finds no window
TabsPanic ==
    /\ bpc = "tabs"
    /\ loc.pc = "top"
    /\ "TABS" \in flags
    /\ ~mux.window
    /\ bpc' = "panic"
    /\ UNCHANGED <<mux, args, log, loc, calls, entries>>
    /\ UNCHANGED lvars

\* for (tab_idx, tab) in ttabs, up to the callback of the next tab
TabStep ==
    /\ bpc = "tabs"
    /\ loc.pc = "top"
    /\ "TABS" \in flags
    /\ mux.window
    /\ loc.i <= Len(mux.tabs)
    /\ Call(tab_get_entry(mux.tabs[loc.i], loc.i - 1), loc.i)
    /\ UNCHANGED <<mux, args, bpc, log, calls, entries>>
    /\ UNCHANGED lvars

\* the loop over the tabs ends, or the flag is not set
TabsDone ==
    /\ bpc = "tabs"
    /\ loc.pc = "top"
    /\ "TABS" \notin flags \/ (mux.window /\ loc.i > Len(mux.tabs))
    /\ args' = [args EXCEPT !.tabs = loc.acc]
    /\ loc' = NoLoc
    /\ bpc' = "domains"
    /\ UNCHANGED <<mux, log, calls, entries>>
    /\ UNCHANGED lvars

\* mux.iter_domains(), sort_by, retain: the vector of Arcs the loop goes over
DomainsSort ==
    /\ bpc = "domains"
    /\ LET ds == IF "DOMAINS" \in flags
                 THEN retain_spawnable(sort_domains(mux.domains)) ELSE <<>>
       IN  loc' = [loc EXCEPT !.list = [k \in 1..Len(ds) |-> ds[k].domain_id]]
    /\ bpc' = "domain_items"
    /\ UNCHANGED <<mux, args, log, calls, entries>>
    /\ UNCHANGED lvars

\* dom.get_entry up to the await in get_label: the action is computed
DomainGetAction ==
    /\ bpc = "domain_items"
    /\ loc.pc = "top"
    /\ loc.i <= Len(loc.list)
    /\ loc' = [loc EXCEPT !.action = domain_get_action(DomainOf(loc.list[loc.i])),
                          !.pc = "label"]
    /\ UNCHANGED <<mux, args, bpc, log, calls, entries>>
    /\ UNCHANGED lvars

\* dom.get_entry from the await in get_label up to the callback
DomainStep ==
    /\ bpc = "domain_items"
    /\ loc.pc = "label"
    /\ Call(domain_get_entry(DomainOf(loc.list[loc.i]), loc.action), loc.i)
    /\ UNCHANGED <<mux, args, bpc, log, calls, entries>>
    /\ UNCHANGED lvars

\* the loop over the domains ends
DomainsDone ==
    /\ bpc = "domain_items"
    /\ loc.pc = "top"
    /\ loc.i > Len(loc.list)
    /\ args' = [args EXCEPT !.domains = loc.acc]
    /\ loc' = NoLoc
    /\ bpc' = "args"
    /\ UNCHANGED <<mux, log, calls, entries>>
    /\ UNCHANGED lvars

\* the callback returns: LauncherEntry::new gives its entry, which the loop
\* pushes on its vector
CallbackReturns ==
    /\ loc.pc = "callback"
    /\ \E c \in HookChoices :
          LET a == loc.call
              r == LauncherEntry_new(a.label, a.action, a.launch_type,
                                     callback(a.label, c))
          IN  /\ loc' = [loc EXCEPT !.i = loc.i + 1, !.acc = Append(loc.acc, r.entry),
                                    !.call = NoCall, !.pc = "top"]
              /\ log' = log \o r.log
              /\ calls' = Append(calls, r.call)
    /\ UNCHANGED <<mux, args, bpc, entries>>
    /\ UNCHANGED lvars

\* LauncherState::build_entries
BuildEntries ==
    /\ bpc = "args"
    /\ entries' = entries \o args.domains \o args.tabs \o args.entries
                          \o args.cmddefs \o args.shortcuts
    /\ bpc' = "built"
    /\ UNCHANGED <<mux, args, log, loc, calls>>
    /\ UNCHANGED lvars

\* while LauncherArgs::new is suspended, a domain attaches or detaches
DomainChanges ==
    /\ Suspended
    /\ \E k \in 1..Len(mux.domains) :
          mux' = [mux EXCEPT !.domains[k].state =
                      IF @ = "Attached" THEN "Detached" ELSE "Attached"]
    /\ UNCHANGED <<args, bpc, log, loc, calls, entries>>
    /\ UNCHANGED lvars

\* while LauncherArgs::new is suspended, a tab is given another title
TabChanges ==
    /\ Suspended
    /\ \E k \in 1..Len(mux.tabs) :
          mux' = [mux EXCEPT !.tabs[k].title =
                      <<IF @[1] = 116 THEN 110 ELSE 116>> \o Tail(@)]
    /\ UNCHANGED <<args, bpc, log, loc, calls, entries>>
    /\ UNCHANGED lvars

NextBuild ==
    \/ CommandStep
    \/ CommandsDone
    \/ KeyStep
    \/ KeysDone
    \/ TabsPanic
    \/ TabStep
    \/ TabsDone
    \/ DomainsSort
    \/ DomainGetAction
    \/ DomainStep
    \/ DomainsDone
    \/ CallbackReturns
    \/ BuildEntries
    \/ DomainChanges
    \/ TabChanges

SpecBuild == InitBuild /\ [][NextBuild]_vars

----------------------------------------------------------------------------
(* Properties *)

\* the event just handled was taken by the quick-select digit arm
\* (that arm leaves filtering and top_row as they were)
LastWasQuickSelect == last.type = "Key" /\ IsDigit(last.key) /\ ~filtering

\* the row a quick-select digit asks for
QuickSelectRow == top_row + DigitOffset(last.key)

\* C1: in every reachable state 0 <= top_row <= active_idx <= top_row +
\* max_items, and active_idx < filtered_entries.len() whenever
\* filtered_entries is non-empty.
C1_CursorInvariant ==
    /\ 0 <= top_row
    /\ top_row <= active_idx
    /\ active_idx <= top_row + max_items
    /\ (Len(filtered_entries) > 0 => active_idx < Len(filtered_entries))

\* C2: window.notify is called at most once in a session; once it has been
\* called the loop has ended (no further event is handled), and the
\* notification carries the session's pane id and the action of an entry of
\* the filtered view.
C2_AtMostOneDispatch ==
    /\ Len(notified) <= 1
    /\ notified # <<>> =>
          /\ status = "ok"
          /\ notified[1].pane_id = pane_id
          /\ \E k \in 1..Len(filtered_entries) :
                filtered_entries[k].action = notified[1].assignment

C2_Witness ==
    /\ last = KeyEv("Enter", "NONE")
    /\ status = "ok"
    /\ active_idx > 0
    /\ notified = <<[pane_id |-> pane_id,
                     assignment |-> filtered_entries[active_idx + 1].action]>>

\* C3: a quick-select digit whose row top_row + (d-1) is not below
\* filtered_entries.len(), and Enter on an empty filtered view, neither crash
\* nor dispatch an action.
C3_GuardedLaunch ==
    (\/ LastWasQuickSelect /\ QuickSelectRow >= Len(filtered_entries)
     \/ last = KeyEv("Enter", "NONE") /\ filtered_entries = <<>>)
    => (status # "panic" /\ notified = <<>>)

\* Escape, or Ctrl-G
IsCancelEvent(ev) ==
    ev.type = "Key" /\ (ev.key = "Escape" \/ (ev.key = "G" /\ ev.mods = "CTRL"))

\* C4: an Escape or Ctrl-G key event, in Navigation or FilterEntry mode, ends
\* the session without dispatching an action and without changing
\* filter_term.
C4_CancelTerminates ==
    [][ (status = "running" /\ IsCancelEvent(last'))
        => (/\ status' = "ok"
            /\ notified' = <<>>
            /\ filter_term' = filter_term) ]_vars

C4_Witness ==
    /\ last = KeyEv("G", "CTRL")
    /\ filtering
    /\ filter_term # <<>>
    /\ status = "ok"
    /\ notified = <<>>

\* C5: a mouse event with a pressed button other than the left one, and not
\* a vertical-wheel event, ends the session with no dispatched action at any
\* row, rows that show an entry included.
C5_OtherButtonCancels ==
    (/\ last.type = "Mouse"
     /\ "VERT_WHEEL" \notin last.buttons
     /\ last.buttons \notin {{}, {"LEFT"}})
    => (status = "ok" /\ notified = <<>>)

C5_Witness ==
    /\ last.type = "Mouse"
    /\ last.buttons = {"RIGHT"}
    /\ last.y >= 1
    /\ last.y <= Len(filtered_entries)
    /\ status = "ok"
    /\ notified = <<>>

\* C6: whenever filter_term is empty, filtered_entries is exactly the
\* Catalog: the same entries in the same order.
C6_EmptyFilterIsCatalog ==
    filter_term = <<>> => filtered_entries = entries

\* a Backspace that removed the last character of filter_term: the session
\* is not an always-filtering one and is still in FilterEntry mode
C6_Witness ==
    /\ last = KeyEv("Backspace", "NONE")
    /\ filter_term = <<>>
    /\ "FUZZY" \notin flags
    /\ filtering
    /\ Len(entries) >= 2
    /\ filtered_entries = entries

\* the score of Catalog entry i (1-based) for the current filter_term
ScoreOf(i) == fuzzy_match(entries[i].label, filter_term)

\* C7: with a non-empty filter_term, filtered_entries holds exactly the
\* Catalog entries whose label has a score for filter_term, each once, by
\* descending score, equal scores in Catalog order.
C7_FilteredIsRankedMatches ==
    filter_term # <<>> =>
        LET scores == [i \in 1..Len(entries) |-> ScoreOf(i)]
            matching == {i \in 1..Len(entries) : scores[i].matched}
            row(k) == filtered_entries[k].action
        IN  /\ Len(filtered_entries) = Cardinality(matching)
            /\ \A k \in 1..Len(filtered_entries) :
                  /\ row(k) \in matching
                  /\ filtered_entries[k] = entries[row(k)]
            /\ \A k, l \in 1..Len(filtered_entries) :
                  k < l => \/ scores[row(k)].score > scores[row(l)].score
                           \/ /\ scores[row(k)].score = scores[row(l)].score
                              /\ row(k) < row(l)

\* a ranking that reorders the Catalog, keeps a tie in Catalog order and
\* leaves out nothing that matches
C7_Witness ==
    /\ filter_term # <<>>
    /\ Len(filtered_entries) = 3
    /\ filtered_entries[1].action > filtered_entries[2].action
    /\ ScoreOf(filtered_entries[2].action).score = ScoreOf(filtered_entries[3].action).score

\* C8: after every event that edits filter_term or re-filters (a character
\* typed in FilterEntry mode, or Backspace), active_idx = 0 and top_row = 0.
C8_FilterEditResetsCursor ==
    [][ (status = "running" /\ ArmOf(last', filtering) \in {"backspace", "filter_char"})
        => (active_idx' = 0 /\ top_row' = 0) ]_vars

\* C9: after a resize that makes max_items smaller than active_idx - top_row,
\* top_row <= active_idx <= top_row + max_items holds again.
C9_ResizeKeepsActiveVisible ==
    [][ (/\ status = "running"
         /\ last'.type = "Resized"
         /\ top_row <= active_idx
         /\ max_items' < active_idx - top_row)
        => (top_row' <= active_idx' /\ active_idx' <= top_row' + max_items') ]_vars

\* C10: a digit 1-9 is a quick-select only in Navigation mode: there digit d
\* ends the session with the action of filtered row top_row + (d-1) and
\* leaves filter_term alone; in FilterEntry mode it dispatches nothing, does
\* not end the session and is appended to filter_term.
C10_DigitQuickSelectOnlyInNavigation ==
    [][ (status = "running" /\ last'.type = "Key" /\ IsDigit(last'.key))
        => IF ~filtering
           THEN /\ filter_term' = filter_term
                /\ top_row + DigitOffset(last'.key) < Len(filtered_entries) =>
                      /\ status' = "ok"
                      /\ notified' =
                            <<[pane_id |-> pane_id,
                               assignment |->
                                  filtered_entries[top_row + DigitOffset(last'.key) + 1].action]>>
           ELSE /\ filter_term' = Append(filter_term, last'.key)
                /\ notified' = <<>>
                /\ status' \in {"running", "err"} ]_vars

\* digit 2 pressed in Navigation mode on a scrolled view
C10_Witness ==
    /\ LastWasQuickSelect
    /\ last.key = "2"
    /\ top_row > 0
    /\ status = "ok"
    /\ notified = <<[pane_id |-> pane_id,
                     assignment |-> filtered_entries[top_row + 2].action]>>

\* the keys of the move-down arms and of the move-up arms
IsDownKey(ev) == ev \in {KeyEv("j", "NONE"), KeyEv("DownArrow", "NONE"), KeyEv("N", "CTRL")}

IsUpKey(ev) == ev \in {KeyEv("k", "NONE"), KeyEv("UpArrow", "NONE"), KeyEv("P", "CTRL")}

\* the step moves the cursor down one row, clamped to the last row of a
\* non-empty filtered view, and leaves filter_term and filtered_entries alone
MovesDown ==
    /\ Len(filtered_entries) > 0 =>
          active_idx' = min(active_idx + 1, Len(filtered_entries) - 1)
    /\ filter_term' = filter_term
    /\ filtered_entries' = filtered_entries

\* the step moves the cursor up one row, clamped to 0, and leaves filter_term
\* and filtered_entries alone
MovesUp ==
    /\ active_idx' = saturating_sub(active_idx, 1)
    /\ filter_term' = filter_term
    /\ filtered_entries' = filtered_entries

\* C11 as stated: in Navigation and in FilterEntry mode, each of j, DownArrow
\* and Ctrl-N moves the cursor down one row and each of k, UpArrow and Ctrl-P
\* moves it up one row, clamped, without changing filter_term or
\* filtered_entries (the move down is stated for a non-empty filtered view).
C11_MoveKeysInBothModes ==
    [][ status = "running"
        => /\ IsDownKey(last') => MovesDown
           /\ IsUpKey(last') => MovesUp ]_vars

\* C11 as amended: DownArrow and Ctrl-N in both modes and j in Navigation
\* mode move the cursor down one row, UpArrow and Ctrl-P in both modes and k
\* in Navigation mode move it up one row, clamped, without changing
\* filter_term or filtered_entries; in FilterEntry mode j and k are appended
\* to filter_term and dispatch nothing.
C11_MoveKeys ==
    [][ status = "running"
        => /\ (IsDownKey(last') /\ (last'.key # "j" \/ ~filtering)) => MovesDown
           /\ (IsUpKey(last') /\ (last'.key # "k" \/ ~filtering)) => MovesUp
           /\ (last' \in {KeyEv("j", "NONE"), KeyEv("k", "NONE")} /\ filtering)
                 => /\ filter_term' = Append(filter_term, last'.key)
                    /\ notified' = notified
                    /\ status' \in {"running", "err"} ]_vars

\* Ctrl-N in FilterEntry mode has moved the cursor off row 0
C11_Witness ==
    /\ last = KeyEv("N", "CTRL")
    /\ filtering
    /\ status = "running"
    /\ active_idx = 1
    /\ Len(filtered_entries) >= 2

\* C12: a left-button click on a row y >= 1 whose entry top_row + y - 1
\* exists moves the cursor to that entry, dispatches that entry's action and
\* ends the session.
C12_LeftClickLaunchesRow ==
    [][ (/\ status = "running"
         /\ last'.type = "Mouse"
         /\ last'.buttons = {"LEFT"}
         /\ last'.y >= 1
         /\ top_row + last'.y - 1 < Len(filtered_entries))
        => (/\ active_idx' = top_row + last'.y - 1
            /\ status' = "ok"
            /\ notified' = <<[pane_id |-> pane_id,
                              assignment |-> filtered_entries[top_row + last'.y].action]>>) ]_vars

\* a left click on a scrolled view
C12_Witness ==
    /\ last.type = "Mouse"
    /\ last.buttons = {"LEFT"}
    /\ top_row > 0
    /\ status = "ok"
    /\ active_idx = top_row + last.y - 1
    /\ active_idx < Len(filtered_entries)
    /\ notified = <<[pane_id |-> pane_id,
                     assignment |-> filtered_entries[active_idx + 1].action]>>

\* C13: a failing poll of the next input event ends the session with an
\* error result, never with a success result.
C13_PollFailureIsError ==
    last.type = "PollErr" => status = "err"

\* the range the data model gives top_row
TopRowInRange(top, len, maxi) == top <= (IF len > maxi THEN len - maxi ELSE 0)

\* C14 (resize): a resize, growing or shrinking max_items, never takes
\* top_row out of 0 <= top_row <= max(0, filtered_entries.len() - max_items).
C14_ResizeKeepsTopRowInRange ==
    [][ (/\ status = "running"
         /\ last'.type = "Resized"
         /\ TopRowInRange(top_row, Len(filtered_entries), max_items))
        => TopRowInRange(top_row', Len(filtered_entries'), max_items') ]_vars

\* C15: from a state whose active_idx is not on the last row
\* (active_idx + 1 < filtered_entries.len()), move_down followed by move_up
\* gives back the same active_idx.
C15_DownThenUpRestores ==
    (status = "running" /\ active_idx + 1 < Len(filtered_entries))
    => \A d \in move_down(active_idx, top_row, Len(filtered_entries), max_items) :
          /\ ~d.panic
          /\ move_up(d.active_idx, d.top_row).active_idx = active_idx

\* a cursor strictly inside the list, reached by a move up
C15_Witness ==
    /\ status = "running"
    /\ last = KeyEv("UpArrow", "NONE")
    /\ active_idx >= 1
    /\ active_idx + 1 < Len(filtered_entries)

\* a - b, or 0 when that is negative
Monus(a, b) == IF a > b THEN a - b ELSE 0

\* the frame lists the filtered rows from top_row on, n of them, and inverts
\* exactly the rendered row that is the active one
FrameListsRows(n) ==
    LET rows == render_rows
    IN  /\ Len(rows) = n
        /\ \A k \in 1..Len(rows) :
              /\ rows[k].entry_idx = top_row + k - 1
              /\ rows[k].label = filtered_entries[top_row + k].label
              /\ rows[k].reverse <=> (top_row + k - 1 = active_idx)

\* C20 as stated: every frame lists the filtered rows from top_row on,
\* exactly min(max_items, filtered_entries.len() - top_row) of them, the
\* active row the only one inverted.
C20_FrameHasVisibleRows ==
    FrameListsRows(min(max_items, Monus(Len(filtered_entries), top_row)))

\* C20 as amended: every frame lists the filtered rows from top_row on,
\* exactly min(max_items + 1, filtered_entries.len() - top_row) of them, the
\* active row the only one inverted.
C20_FrameHasVisibleRowsPlusOne ==
    FrameListsRows(min(max_items + 1, Monus(Len(filtered_entries), top_row)))

\* a frame cut off by max_items, scrolled, with the active row in it
C20_Witness ==
    /\ status = "running"
    /\ top_row > 0
    /\ Len(render_rows) = max_items + 1
    /\ Len(filtered_entries) > top_row + max_items + 1
    /\ \E k \in 1..Len(render_rows) : render_rows[k].reverse

\* the entries of the Catalog whose launch_type is of variant t, in order
EntriesOfType(t) == SelectSeq(entries, LAMBDA e : e.launch_type.type = t)

\* the elements of a sequence
Range(seq) == {seq[i] : i \in 1..Len(seq)}

\* C16: with tabs asked for, the Catalog holds one Tab entry per tab of the
\* window, in window order, and the entry of the tab at position i (counted
\* from 0) carries the action ActivateTab(i), whatever the ids of the tabs.
C16_TabEntryActivatesPosition ==
    (bpc = "built" /\ "TABS" \in flags)
    => LET te == EntriesOfType("Tab")
       IN  /\ Len(te) = Len(mux.tabs)
           /\ \A i \in 1..Len(te) :
                 /\ te[i].launch_type.tab_idx = i - 1
                 /\ te[i].action = Action("ActivateTab", i - 1, <<>>)

\* the key table LauncherArgs::new reads, empty when shortcuts are not asked for
KeysRead == IF "KEY_ASSIGNMENTS" \in flags THEN mux.keys ELSE <<>>

\* C17: once the key table is read, no two shortcut entries carry equal
\* actions, every shortcut entry is the first binding of its action in the
\* order the table is read, every action of the table other than
\* ActivateTab and ActivateTabRelative has its entry and none of those two
\* has one, and the entries are in ascending order of label.
C17_ShortcutsDedupedSorted ==
    bpc \notin {"commands", "keys"}
    => LET sc == args.shortcuts
       IN  /\ \A i, j \in 1..Len(sc) : sc[i].action = sc[j].action => i = j
           /\ \A i \in 1..Len(sc) : sc[i].action.kind \notin TabActions
           /\ \A i, j \in 1..Len(sc) : i < j => ~str_less(sc[j].label, sc[i].label)
           /\ \A i \in 1..Len(sc) :
                 \E k \in 1..Len(KeysRead) :
                    /\ KeysRead[k].action = sc[i].action
                    /\ KeysRead[k].code = sc[i].launch_type.code
                    /\ KeysRead[k].mods = sc[i].launch_type.mods
                    /\ \A k2 \in 1..(k - 1) : KeysRead[k2].action # sc[i].action
           /\ \A k \in 1..Len(KeysRead) :
                 KeysRead[k].action.kind \notin TabActions
                 => \E i \in 1..Len(sc) : sc[i].action = KeysRead[k].action

\* a table of three bindings, the last two of one action: two shortcuts, the
\* second binding kept and sorted before the first
C17_Witness ==
    /\ bpc = "built"
    /\ "KEY_ASSIGNMENTS" \in flags
    /\ Len(mux.keys) = 3
    /\ mux.keys[2].action = mux.keys[3].action
    /\ Len(args.shortcuts) = 2
    /\ args.shortcuts[1].launch_type.code = mux.keys[2].code
    /\ args.shortcuts[2].launch_type.code = mux.keys[1].code

\* the source items that give an entry
EligibleCommands ==
    IF "COMMANDS" \in flags
    THEN {c \in Range(mux.commands) : c.action.kind \notin TabActions} ELSE {}

EligibleKeys ==
    {KeysRead[k] : k \in {k \in 1..Len(KeysRead) :
                            /\ KeysRead[k].action.kind \notin TabActions
                            /\ \A k2 \in 1..(k - 1) : KeysRead[k2].action # KeysRead[k].action}}

EligibleTabs == IF "TABS" \in flags THEN 1..Len(mux.tabs) ELSE {}

EligibleDomains == IF "DOMAINS" \in flags THEN {d \in Range(mux.domains) : d.spawnable} ELSE {}

\* two entries are equal
SameEntry(a, b) ==
    /\ a.label = b.label
    /\ a.action = b.action
    /\ a.launch_type.type = b.launch_type.type
    /\ a.launch_type = b.launch_type

\* the entry a call of LauncherEntry::new has to give: what it was called
\* with, the label replaced by the callback's when the callback gave one
Expected(c) ==
    [label |-> IF c.nlabel.ok THEN c.nlabel.label ELSE c.label,
     action |-> c.action,
     launch_type |-> c.launch_type]

\* the calls made for items of kind t
CallsOfType(t) == {k \in 1..Len(calls) : calls[k].launch_type.type = t}

\* the labels of the calls whose callback failed, in order
FailedLabels ==
    LET failed == SelectSeq(calls, LAMBDA c : ~c.nlabel.ok)
    IN  [k \in 1..Len(failed) |-> failed[k].label]

\* C18: whatever the callbacks return, a construction that completes has
\* made exactly one call of LauncherEntry::new per eligible source item
\* (with the label, action and launch_type of that item), the Catalog holds
\* exactly the entries of these calls, each with the action and launch_type
\* it was called with and with the callback's label or, when the callback
\* failed, the original label, and the failures and only they are logged.
C18_OneEntryPerItem ==
    bpc = "built"
    => /\ Len(calls) = Cardinality(EligibleCommands) + Cardinality(EligibleKeys)
                       + Cardinality(EligibleTabs) + Cardinality(EligibleDomains)
       /\ Len(entries) = Len(calls)
       /\ \A i \in 1..Len(entries) :
             Cardinality({j \in 1..Len(entries) : SameEntry(entries[j], entries[i])})
             = Cardinality({k \in 1..Len(calls) : SameEntry(Expected(calls[k]), entries[i])})
       /\ log = FailedLabels
       /\ \A c \in EligibleCommands : \E k \in CallsOfType("Command") :
             /\ calls[k].launch_type.brief = c.brief
             /\ calls[k].launch_type.doc = c.doc
             /\ calls[k].label = command_get_label(c)
             /\ calls[k].action = c.action
       /\ \A b \in EligibleKeys : \E k \in CallsOfType("KeyAssignment") :
             /\ calls[k].launch_type.code = b.code
             /\ calls[k].launch_type.mods = b.mods
             /\ calls[k].label = key_get_label(b)
             /\ calls[k].action = b.action
       /\ \A t \in EligibleTabs : \E k \in CallsOfType("Tab") :
             /\ calls[k].launch_type.tab_idx = t - 1
             /\ calls[k].action = tab_get_action(mux.tabs[t])
       /\ \A d \in EligibleDomains : \E k \in CallsOfType("Domain") :
             /\ calls[k].launch_type.domain_id = d.domain_id
             /\ calls[k].action.kind \in {"AttachDomain", "SpawnCommandInNewTab"}

\* a Catalog of all four kinds in which a callback failed between two that
\* gave a label
C18_Witness ==
    /\ bpc = "built"
    /\ flags = BuildFlags
    /\ Len(entries) >= 4
    /\ Len(log) = 1
    /\ \E i \in 2..(Len(entries) - 1) :
          /\ entries[i].label \in Range(log)
          /\ entries[i - 1].label \notin Range(log)
          /\ entries[i + 1].label \notin Range(log)

\* the place of a kind of entry in the Catalog
KindRank(t) ==
    CASE t = "Domain" -> 1
      [] t = "Tab" -> 2
      [] t = "Command" -> 4
      [] t = "KeyAssignment" -> 5
      [] OTHER -> 3

\* C19: the Domain entries of the Catalog are exactly the spawnable domains,
\* every attached one before every other one and, within one state, in
\* ascending order of domain id (the state being the one the entry shows);
\* and the Catalog lists the domains first, then the tabs, then the
\* free-form entries, then the commands, then the shortcuts.
C19_DomainsThenRest ==
    bpc = "built"
    => LET de == EntriesOfType("Domain")
       IN  /\ Len(de) = Cardinality(EligibleDomains)
           /\ \A d \in EligibleDomains : \E i \in 1..Len(de) :
                 de[i].launch_type.domain_id = d.domain_id
           /\ \A i, j \in 1..Len(de) :
                 i < j => LET a == de[i].launch_type
                              b == de[j].launch_type
                          IN  /\ b.state = "Attached" => a.state = "Attached"
                              /\ a.state = b.state => a.domain_id < b.domain_id
           /\ \A i, j \in 1..Len(entries) :
                 i < j => KindRank(entries[i].launch_type.type)
                          <= KindRank(entries[j].launch_type.type)
           /\ entries = args.domains \o args.tabs \o args.entries
                        \o args.cmddefs \o args.shortcuts

\* the step is a move down: DownArrow, Ctrl-N, or j in Navigation mode
IsMoveDown(ev) == IsDownKey(ev) /\ (ev.key # "j" \/ ~filtering)

\* the step is a move up: UpArrow, Ctrl-P, or k in Navigation mode
IsMoveUp(ev) == IsUpKey(ev) /\ (ev.key # "k" \/ ~filtering)

\* C21: a move down never decreases top_row: it leaves top_row alone when
\* the new active_idx is at most top_row + max_items and otherwise advances
\* it by new active_idx - (top_row + max_items); a move up changes top_row
\* only when the new active_idx is below it, to the new active_idx.
C21_MoveScrollsByOverflow ==
    [][ status = "running"
        => /\ IsMoveDown(last')
              => /\ top_row' >= top_row
                 /\ active_idx' <= top_row + max_items => top_row' = top_row
                 /\ active_idx' > top_row + max_items
                       => top_row' = top_row + (active_idx' - (top_row + max_items))
           /\ IsMoveUp(last')
              => top_row' = IF active_idx' < top_row THEN active_idx' ELSE top_row ]_vars

\* C22: filtering starts true exactly when the FUZZY flag is set; it goes
\* from false to true only on `/` in Navigation mode, and from true to false
\* only on a Backspace met with an empty filter_term and the FUZZY flag not
\* set; so a session with the FUZZY flag is filtering in every state.
C22_FilteringMode ==
    /\ filtering <=> "FUZZY" \in flags
    /\ [][ /\ (~filtering /\ filtering')
              => last' \in {KeyEv("/", "NONE")}
           /\ (filtering /\ ~filtering')
              => /\ last' = KeyEv("Backspace", "NONE")
                 /\ filter_term = <<>>
                 /\ "FUZZY" \notin flags ]_vars
    /\ []("FUZZY" \in flags => filtering)

\* `/` has taken a session without the FUZZY flag into FilterEntry mode
C22_Witness ==
    /\ "FUZZY" \notin flags
    /\ filtering
    /\ filter_term = <<>>
    /\ last = KeyEv("/", "NONE")
    /\ status = "running"

\* C23: a move down met with an empty filtered_entries does not underflow
\* in filtered_entries.len() - 1 (no panic, no wrapped value) and leaves
\* active_idx at 0 and top_row as it was.
C23_MoveDownOnEmptyIsNoOp ==
    [][ (status = "running" /\ Len(filtered_entries) = 0 /\ IsMoveDown(last'))
        => /\ status' # "panic"
           /\ active_idx' = 0
           /\ top_row' = top_row ]_vars

\* the mouse event of the step is not a wheel event
IsClick(ev) == ev.type = "Mouse" /\ "VERT_WHEEL" \notin ev.buttons

\* row y of a mouse event is one of the rows 1..filtered_entries.len()
ValidRow(y) == y >= 1 /\ y <= Len(filtered_entries)

\* C24: a mouse event that is not a wheel event and has no button pressed
\* dispatches nothing and does not end the loop (only the rendering that
\* follows can fail); it moves the cursor to top_row + y - 1 when
\* 1 <= y <= filtered_entries.len() and leaves it alone otherwise.  A
\* left-button click with y = 0 or y > filtered_entries.len() ends the
\* session without dispatching anything.
C24_MouseMoveAndInvalidClick ==
    [][ (status = "running" /\ IsClick(last'))
        => /\ last'.buttons = {}
              => /\ notified' = notified
                 /\ status' \in {"running", "err"}
                 /\ top_row' = top_row
                 /\ active_idx' = IF ValidRow(last'.y) THEN top_row + last'.y - 1
                                  ELSE active_idx
           /\ (last'.buttons = {"LEFT"} /\ ~ValidRow(last'.y))
              => /\ notified' = notified
                 /\ status' = "ok"
                 /\ active_idx' = active_idx ]_vars

\* a left click below the last row of a non-empty list has ended the session
\* with nothing dispatched
C24_Witness ==
    /\ last.type = "Mouse"
    /\ last.buttons = {"LEFT"}
    /\ Len(filtered_entries) >= 1
    /\ last.y > Len(filtered_entries)
    /\ status = "ok"
    /\ notified = <<>>

====
